---- MODULE Spec2Model ----
(***************************************************************************)
(* The /3d page of nextjs-r3f: two ClientOnly gates (one around Scene, one *)
(* around AdvancedScene) and the two Box components of the basic scene.    *)
(*                                                                         *)
(* React state is modelled as React keeps it: the value a component saw in *)
(* its last render (the value its event-handler closures captured) plus a  *)
(* queue of updates enqueued by setState calls and applied by the next     *)
(* render of that component.                                               *)
(*                                                                         *)
(* Scales are in tenths (15 is 1.5), rotation and frame deltas in ticks.   *)
(***************************************************************************)
EXTENDS Integers, Sequences, FiniteSets

VARIABLES
    page,          \* where the /3d page is: "none", "server" (HTML only), "client"
    serverOut,     \* per gate: what the server render of ClientOnly returned
    firstOut,      \* per gate: what the first client render of ClientOnly returned
    out,           \* per gate: what the latest client render of ClientOnly returned
    hasMounted,    \* per gate: ClientOnly's hasMounted as of its latest render
    effectRan,     \* per gate: the mount effect (deps []) has run
    gateQueue,     \* per gate: setHasMounted updates not yet rendered
    canvasMounted, \* the Canvas of Scene has committed its children (the boxes)
    meshRef,       \* per box: meshRef.current, "null" or "mesh"
    hovered,       \* per box: hovered as of the box's latest render
    active,        \* per box: active as of the box's latest render
    hoverQueue,    \* per box: setHover updates not yet rendered
    activeQueue,   \* per box: setActive updates not yet rendered
    rot,           \* per box: mesh.rotation.x
    clicksOdd,     \* per box: parity of the clicks handled since it mounted
    lastOver,      \* per box: its latest pointer event was a pointer-over
    fresh,         \* "no", or the boxes have mounted and handled no event yet:
                   \* "clean", or "dirty" if they replace boxes that had a flag set
    elapsedTime,   \* the guide's limiter: state.clock.elapsedTime, in ticks
    limiterRan,    \* the limiter's update logic ran in the latest frame
    updateLog      \* the elapsedTime of every frame whose update logic ran

vars == << page, serverOut, firstOut, out, hasMounted, effectRan, gateQueue,
           canvasMounted, meshRef, hovered, active, hoverQueue, activeQueue,
           rot, clicksOdd, lastOver, fresh,
           elapsedTime, limiterRan, updateLog >>

limiterVars == << elapsedTime, limiterRan, updateLog >>

gateVars == << serverOut, firstOut, out, hasMounted, effectRan, gateQueue >>

boxVars == << canvasMounted, meshRef, hovered, active, hoverQueue, activeQueue,
              rot, clicksOdd, lastOver >>

pageVars == << page, gateVars, boxVars, fresh >>

(***************************************************************************)
(* Bounds.                                                                 *)
(***************************************************************************)
\* updates the boxes may have enqueued and not yet rendered, all together
MaxPending == 2

\* rotation.x is followed up to this many ticks
MaxRot == 2

\* largest frame delta, in ticks
MaxDelta == 1

\* ticks in one period of the limiter (1/30 s)
TicksPerPeriod == 3

\* the limiter's clock is followed up to this many ticks
MaxTime == 14

\* largest time between two frames of the limiter, in ticks
MaxGap == 4

Gates == {"basic", "advanced"}

Boxes == {"left", "right"}

Deltas == 0..MaxDelta

(***************************************************************************)
(* The page: what each ClientOnly gate is given.                           *)
(***************************************************************************)
Children(g) == IF g = "basic" THEN "Scene" ELSE "AdvancedScene"

Fallback(g) == "Loading 3D scene..."

(***************************************************************************)
(* React's useState: the initial value, and a render applying the queued   *)
(* updates in order (each setState(value) replaces the state).             *)
(***************************************************************************)
RECURSIVE ApplyUpdates(_, _)
ApplyUpdates(state, queue) ==
    IF queue = << >> THEN state
    ELSE ApplyUpdates(Head(queue), Tail(queue))

(***************************************************************************)
(* ClientOnly.                                                             *)
(***************************************************************************)
HasMountedInit == FALSE

\* The gate with its test inverted.
ClientOnlyInverted(mounted, children, fallback) ==
    IF mounted THEN fallback ELSE children

ClientOnly(mounted, children, fallback) ==
    IF ~mounted THEN fallback ELSE children

(***************************************************************************)
(* Box.                                                                    *)
(***************************************************************************)
HoveredInit == FALSE

ActiveInit == FALSE

Scale(a) == IF a THEN 15 ELSE 10

Color(h) == IF h THEN "hotpink" ELSE "orange"

scale(b) == Scale(active[b])

color(b) == Color(hovered[b])

Pending(b) == Len(hoverQueue[b]) + Len(activeQueue[b])

RECURSIVE PendingOf(_)
PendingOf(S) ==
    IF S = {} THEN 0
    ELSE LET b == CHOOSE x \in S : TRUE
         IN  Pending(b) + PendingOf(S \ {b})

TotalPending == PendingOf(Boxes)

Init ==
    /\ page = "none"
    /\ serverOut = [g \in Gates |-> "none"]
    /\ firstOut = [g \in Gates |-> "none"]
    /\ out = [g \in Gates |-> "none"]
    /\ hasMounted = [g \in Gates |-> HasMountedInit]
    /\ effectRan = [g \in Gates |-> FALSE]
    /\ gateQueue = [g \in Gates |-> << >>]
    /\ canvasMounted = FALSE
    /\ meshRef = [b \in Boxes |-> "null"]
    /\ hovered = [b \in Boxes |-> HoveredInit]
    /\ active = [b \in Boxes |-> ActiveInit]
    /\ hoverQueue = [b \in Boxes |-> << >>]
    /\ activeQueue = [b \in Boxes |-> << >>]
    /\ rot = [b \in Boxes |-> 0]
    /\ clicksOdd = [b \in Boxes |-> FALSE]
    /\ lastOver = [b \in Boxes |-> FALSE]
    /\ fresh = "no"
    /\ elapsedTime = 0
    /\ limiterRan = FALSE
    /\ updateLog = << >>

(***************************************************************************)
(* Page lifecycle.                                                         *)
(***************************************************************************)
\* The server renders the page: useState gives the initial value, no effect runs.
ServerRender ==
    /\ page = "none"
    /\ page' = "server"
    /\ serverOut' = [g \in Gates |->
                        ClientOnly(HasMountedInit, Children(g), Fallback(g))]
    /\ UNCHANGED << firstOut, out, hasMounted, effectRan, gateQueue >>
    /\ UNCHANGED << boxVars, fresh >>
    /\ UNCHANGED limiterVars

\* A first client render that starts mounted, as useState(typeof window !==
\* 'undefined') would.
FirstClientRenderEager ==
    /\ hasMounted' = [g \in Gates |-> TRUE]
    /\ out' = [g \in Gates |->
                  ClientOnly(hasMounted'[g], Children(g), Fallback(g))]
    /\ firstOut' = out'
    /\ effectRan' = [g \in Gates |-> FALSE]
    /\ gateQueue' = [g \in Gates |-> << >>]
    /\ page' = "client"

\* First client render of both gates (hydration of the server HTML, or a
\* client-side navigation to the page).
FirstClientRender ==
    /\ hasMounted' = [g \in Gates |-> HasMountedInit]
    /\ out' = [g \in Gates |->
                  ClientOnly(hasMounted'[g], Children(g), Fallback(g))]
    /\ firstOut' = out'
    /\ effectRan' = [g \in Gates |-> FALSE]
    /\ gateQueue' = [g \in Gates |-> << >>]
    /\ page' = "client"

Hydrate ==
    /\ page = "server"
    /\ FirstClientRender
    /\ UNCHANGED << serverOut, boxVars, fresh >>
    /\ UNCHANGED limiterVars

ClientNavigate ==
    /\ page = "none"
    /\ FirstClientRender
    /\ UNCHANGED << serverOut, boxVars, fresh >>
    /\ UNCHANGED limiterVars

\* A mount effect that sets the flag to the value it already has.
MountEffectSameValue(g) ==
    /\ page = "client"
    /\ ~effectRan[g]
    /\ effectRan' = [effectRan EXCEPT ![g] = TRUE]
    /\ gateQueue' = [gateQueue EXCEPT ![g] = Append(@, hasMounted[g])]
    /\ UNCHANGED << page, serverOut, firstOut, out, hasMounted >>
    /\ UNCHANGED << boxVars, fresh >>
    /\ UNCHANGED limiterVars

\* useEffect(() => { setHasMounted(true) }, []): once per mount, after the
\* first client render.
MountEffect(g) ==
    /\ page = "client"
    /\ ~effectRan[g]
    /\ effectRan' = [effectRan EXCEPT ![g] = TRUE]
    /\ gateQueue' = [gateQueue EXCEPT ![g] = Append(@, TRUE)]
    /\ UNCHANGED << page, serverOut, firstOut, out, hasMounted >>
    /\ UNCHANGED << boxVars, fresh >>
    /\ UNCHANGED limiterVars

\* A re-render with the flag kept in one place shared by all gates.
RerenderGateShared(g) ==
    /\ page = "client"
    /\ gateQueue[g] # << >>
    /\ hasMounted' = [h \in Gates |-> ApplyUpdates(hasMounted[g], gateQueue[g])]
    /\ gateQueue' = [gateQueue EXCEPT ![g] = << >>]
    /\ out' = [h \in Gates |->
                  ClientOnly(hasMounted'[h], Children(h), Fallback(h))]
    /\ UNCHANGED << page, serverOut, firstOut, effectRan >>
    /\ UNCHANGED << boxVars, fresh >>
    /\ UNCHANGED limiterVars

\* React re-renders a gate that has an update queued.
RerenderGate(g) ==
    /\ page = "client"
    /\ gateQueue[g] # << >>
    /\ hasMounted' = [hasMounted EXCEPT ![g] = ApplyUpdates(@, gateQueue[g])]
    /\ gateQueue' = [gateQueue EXCEPT ![g] = << >>]
    /\ out' = [out EXCEPT ![g] =
                  ClientOnly(hasMounted'[g], Children(g), Fallback(g))]
    /\ UNCHANGED << page, serverOut, firstOut, effectRan >>
    /\ UNCHANGED << boxVars, fresh >>
    /\ UNCHANGED limiterVars

\* A mount that finds the flags of the boxes it replaces (state kept outside
\* the component).
MountCanvasKeepState ==
    /\ page = "client"
    /\ out["basic"] = "Scene"
    /\ ~canvasMounted
    /\ canvasMounted' = TRUE
    /\ meshRef' = [b \in Boxes |-> "mesh"]
    /\ hoverQueue' = [b \in Boxes |-> << >>]
    /\ activeQueue' = [b \in Boxes |-> << >>]
    /\ rot' = [b \in Boxes |-> 0]
    /\ clicksOdd' = [b \in Boxes |-> FALSE]
    /\ lastOver' = [b \in Boxes |-> FALSE]
    /\ fresh' = IF \E b \in Boxes : hovered[b] \/ active[b]
                THEN "dirty" ELSE "clean"
    /\ UNCHANGED << page, gateVars, hovered, active >>
    /\ UNCHANGED limiterVars

\* The Canvas of a rendered Scene commits its children: both boxes mount,
\* each with fresh state, its mesh attached to meshRef.
MountCanvas ==
    /\ page = "client"
    /\ out["basic"] = "Scene"
    /\ ~canvasMounted
    /\ canvasMounted' = TRUE
    /\ meshRef' = [b \in Boxes |-> "mesh"]
    /\ hovered' = [b \in Boxes |-> HoveredInit]
    /\ active' = [b \in Boxes |-> ActiveInit]
    /\ hoverQueue' = [b \in Boxes |-> << >>]
    /\ activeQueue' = [b \in Boxes |-> << >>]
    /\ rot' = [b \in Boxes |-> 0]
    /\ clicksOdd' = [b \in Boxes |-> FALSE]
    /\ lastOver' = [b \in Boxes |-> FALSE]
    /\ fresh' = IF \E b \in Boxes : hovered[b] \/ active[b]
                THEN "dirty" ELSE "clean"
    /\ UNCHANGED << page, gateVars >>
    /\ UNCHANGED limiterVars

\* Leaving the page unmounts everything; component state is discarded (the
\* flags and the rotation of the discarded boxes are left as they were, and
\* are overwritten by the next mount).
Unmount ==
    /\ page # "none"
    /\ page' = "none"
    /\ serverOut' = [g \in Gates |-> "none"]
    /\ firstOut' = [g \in Gates |-> "none"]
    /\ out' = [g \in Gates |-> "none"]
    /\ hasMounted' = [g \in Gates |-> HasMountedInit]
    /\ effectRan' = [g \in Gates |-> FALSE]
    /\ gateQueue' = [g \in Gates |-> << >>]
    /\ canvasMounted' = FALSE
    /\ meshRef' = [b \in Boxes |-> "null"]
    /\ hoverQueue' = [b \in Boxes |-> << >>]
    /\ activeQueue' = [b \in Boxes |-> << >>]
    /\ clicksOdd' = [b \in Boxes |-> FALSE]
    /\ lastOver' = [b \in Boxes |-> FALSE]
    /\ fresh' = "no"
    /\ UNCHANGED << hovered, active, rot >>
    /\ UNCHANGED limiterVars

(***************************************************************************)
(* Box events.                                                             *)
(***************************************************************************)
\* A click with the active flag lifted to the scene: every box is updated.
ClickAll(b) ==
    /\ canvasMounted
    /\ TotalPending + Cardinality(Boxes) <= MaxPending
    /\ activeQueue' = [c \in Boxes |-> Append(activeQueue[c], ~active[b])]
    /\ clicksOdd' = [clicksOdd EXCEPT ![b] = ~@]
    /\ UNCHANGED << page, gateVars, canvasMounted, meshRef, hovered, active,
                    hoverQueue, rot, lastOver >>
    /\ fresh' = "no"
    /\ UNCHANGED limiterVars

\* onClick={() => setActive(!active)}: active is the value of the latest render.
Click(b) ==
    /\ canvasMounted
    /\ TotalPending < MaxPending
    /\ activeQueue' = [activeQueue EXCEPT ![b] = Append(@, ~active[b])]
    /\ clicksOdd' = [clicksOdd EXCEPT ![b] = ~@]
    /\ UNCHANGED << page, gateVars, canvasMounted, meshRef, hovered, active,
                    hoverQueue, rot, lastOver >>
    /\ fresh' = "no"
    /\ UNCHANGED limiterVars

\* A pointer-over that toggles: setHover(!hovered).
PointerOverToggle(b) ==
    /\ canvasMounted
    /\ TotalPending < MaxPending
    /\ hoverQueue' = [hoverQueue EXCEPT ![b] = Append(@, ~hovered[b])]
    /\ lastOver' = [lastOver EXCEPT ![b] = TRUE]
    /\ UNCHANGED << page, gateVars, canvasMounted, meshRef, hovered, active,
                    activeQueue, rot, clicksOdd >>
    /\ fresh' = "no"
    /\ UNCHANGED limiterVars

\* onPointerOver={() => setHover(true)}
PointerOver(b) ==
    /\ canvasMounted
    /\ TotalPending < MaxPending
    /\ hoverQueue' = [hoverQueue EXCEPT ![b] = Append(@, TRUE)]
    /\ lastOver' = [lastOver EXCEPT ![b] = TRUE]
    /\ UNCHANGED << page, gateVars, canvasMounted, meshRef, hovered, active,
                    activeQueue, rot, clicksOdd >>
    /\ fresh' = "no"
    /\ UNCHANGED limiterVars

\* onPointerOut={() => setHover(false)}
PointerOut(b) ==
    /\ canvasMounted
    /\ TotalPending < MaxPending
    /\ hoverQueue' = [hoverQueue EXCEPT ![b] = Append(@, FALSE)]
    /\ lastOver' = [lastOver EXCEPT ![b] = FALSE]
    /\ UNCHANGED << page, gateVars, canvasMounted, meshRef, hovered, active,
                    activeQueue, rot, clicksOdd >>
    /\ fresh' = "no"
    /\ UNCHANGED limiterVars

\* A frame callback that assigns: rotation.x = delta.
FrameCallbackAssign(b, delta) ==
    IF meshRef[b] # "null" THEN delta ELSE rot[b]

\* The callback without its guard: reading rotation of a null mesh throws.
FrameCallbackUnguarded(ref, r, delta) ==
    IF ref # "null"
    THEN [rot |-> r + delta, error |-> FALSE]
    ELSE [rot |-> r, error |-> TRUE]

\* useFrame((state, delta) => { if (meshRef.current) rotation.x += delta }):
\* what one call does, given meshRef.current and the mesh's rotation.x: the
\* rotation.x it leaves, and whether it threw.
FrameCallbackResult(ref, r, delta) ==
    IF ref # "null"
    THEN [rot |-> r + delta, error |-> FALSE]
    ELSE [rot |-> r, error |-> FALSE]

\* rotation.x of box b after its callback has run with this delta.
FrameCallback(b, delta) ==
    FrameCallbackResult(meshRef[b], rot[b], delta).rot

\* One frame of the render loop: the callback of every mounted box is called,
\* one after the other and with the same delta, nothing else running between.
Frame(delta) ==
    /\ canvasMounted
    /\ \A b \in Boxes : rot[b] + delta <= MaxRot
    /\ rot' = [b \in Boxes |-> FrameCallback(b, delta)]
    /\ UNCHANGED << page, gateVars, canvasMounted, meshRef, hovered, active,
                    hoverQueue, activeQueue, clicksOdd, lastOver >>
    /\ fresh' = "no"
    /\ UNCHANGED limiterVars

\* A re-render that replaces the mesh (as a changing key or args would): the
\* new mesh starts at rotation 0.
RerenderBoxNewMesh(b) ==
    /\ canvasMounted
    /\ Pending(b) > 0
    /\ hovered' = [hovered EXCEPT ![b] = ApplyUpdates(@, hoverQueue[b])]
    /\ active' = [active EXCEPT ![b] = ApplyUpdates(@, activeQueue[b])]
    /\ hoverQueue' = [hoverQueue EXCEPT ![b] = << >>]
    /\ activeQueue' = [activeQueue EXCEPT ![b] = << >>]
    /\ rot' = [rot EXCEPT ![b] = 0]
    /\ UNCHANGED << page, gateVars, canvasMounted, meshRef, clicksOdd,
                    lastOver >>
    /\ fresh' = "no"
    /\ UNCHANGED limiterVars

\* React re-renders a Box that has updates queued: both hooks apply their
\* queues; the mesh is kept, only the changed props are applied to it.
RerenderBox(b) ==
    /\ canvasMounted
    /\ Pending(b) > 0
    /\ hovered' = [hovered EXCEPT ![b] = ApplyUpdates(@, hoverQueue[b])]
    /\ active' = [active EXCEPT ![b] = ApplyUpdates(@, activeQueue[b])]
    /\ hoverQueue' = [hoverQueue EXCEPT ![b] = << >>]
    /\ activeQueue' = [activeQueue EXCEPT ![b] = << >>]
    /\ UNCHANGED << page, gateVars, canvasMounted, meshRef, rot, clicksOdd,
                    lastOver >>
    /\ fresh' = "no"
    /\ UNCHANGED limiterVars

(***************************************************************************)
(* The guide's frame-rate limiter.                                         *)
(***************************************************************************)
\* the rate in "Limit to 30fps"
LimitFps == 30

TicksPerSecond == LimitFps * TicksPerPeriod

\* 1/30 s, in ticks
Period == TicksPerSecond \div LimitFps

Gaps == 0..MaxGap

\* The guard with <= for <.
LimiterGuardInclusive(t, delta) == (t % Period) <= delta

\* if (state.clock.elapsedTime % (1/30) < delta)
LimiterGuard(t, delta) == (t % Period) < delta

\* One frame of a component using the limiter: the clock has advanced by delta,
\* the time since the previous frame, and the update logic runs if the guard
\* holds.
LimiterFrame(delta) ==
    /\ elapsedTime + delta <= MaxTime
    /\ elapsedTime' = elapsedTime + delta
    /\ limiterRan' = LimiterGuard(elapsedTime', delta)
    /\ updateLog' = IF limiterRan'
                    THEN Append(updateLog, elapsedTime')
                    ELSE updateLog
    /\ UNCHANGED pageVars

LimiterNext == \E d \in Gaps : LimiterFrame(d)

LimiterSpec == Init /\ [][LimiterNext]_vars

Next ==
    \/ ServerRender
    \/ Hydrate
    \/ ClientNavigate
    \/ \E g \in Gates : MountEffect(g)
    \/ \E g \in Gates : RerenderGate(g)
    \/ MountCanvas
    \/ Unmount
    \/ \E b \in Boxes : Click(b)
    \/ \E b \in Boxes : PointerOver(b)
    \/ \E b \in Boxes : PointerOut(b)
    \/ \E d \in Deltas : Frame(d)
    \/ \E b \in Boxes : RerenderBox(b)

Spec == Init /\ [][Next]_vars

\* Frames with a positive delta keep being delivered while the Canvas is
\* mounted (the render loop runs on every animation frame).
FrameFairness == WF_vars(\E d \in Deltas \ {0} : Frame(d))

FrameSpec == Init /\ [][Next]_vars /\ FrameFairness

\* The frame callbacks on their own: frames delivered to boxes whose
\* meshRef.current is set or null, with any flags.
CallbackInit ==
    /\ page = "client"
    /\ serverOut = [g \in Gates |-> "none"]
    /\ firstOut = [g \in Gates |-> Fallback(g)]
    /\ out = [g \in Gates |-> Children(g)]
    /\ hasMounted = [g \in Gates |-> TRUE]
    /\ effectRan = [g \in Gates |-> TRUE]
    /\ gateQueue = [g \in Gates |-> << >>]
    /\ canvasMounted = TRUE
    /\ meshRef \in [Boxes -> {"null", "mesh"}]
    /\ hovered \in [Boxes -> BOOLEAN]
    /\ active \in [Boxes -> BOOLEAN]
    /\ hoverQueue = [b \in Boxes |-> << >>]
    /\ activeQueue = [b \in Boxes |-> << >>]
    /\ rot = [b \in Boxes |-> 0]
    /\ clicksOdd = active
    /\ lastOver = hovered
    /\ fresh = "no"
    /\ elapsedTime = 0
    /\ limiterRan = FALSE
    /\ updateLog = << >>

CallbackNext == \E d \in Deltas : Frame(d)

CallbackSpec == CallbackInit /\ [][CallbackNext]_vars

\* Effects of a committed render are run, and scheduled re-renders are performed.
MountFairness ==
    \A g \in Gates : WF_vars(MountEffect(g)) /\ WF_vars(RerenderGate(g))

MountSpec == Init /\ [][Next]_vars /\ MountFairness

TypeOK ==
    /\ page \in {"none", "server", "client"}
    /\ hasMounted \in [Gates -> BOOLEAN]
    /\ hovered \in [Boxes -> BOOLEAN]
    /\ active \in [Boxes -> BOOLEAN]
    /\ rot \in [Boxes -> 0..MaxRot]
    /\ fresh \in {"no", "clean", "dirty"}

(***************************************************************************)
(* Claims.                                                                 *)
(***************************************************************************)
\* A box whose updates have all been rendered.
Settled(b) == canvasMounted /\ Pending(b) = 0

\* C1: after n clicks handled by a box (however interleaved with frames,
\* pointer events and re-renders), the box, once re-rendered, is displayed at
\* scale 1.5 if n is odd and at scale 1 if n is even.
C1_ScaleFollowsClickParity ==
    \A b \in Boxes :
        Settled(b) => scale(b) = (IF clicksOdd[b] THEN 15 ELSE 10)

\* C2 as stated: in every reachable state a mounted box's color is hotpink
\* exactly when its most recent pointer event was pointer-over.
C2_ColorIsLastPointerEvent ==
    \A b \in Boxes :
        canvasMounted => (color(b) = "hotpink" <=> lastOver[b])

\* C2 amended: in every reachable state, the color a mounted box has once its
\* queued setHover updates are rendered (its color now, if none is queued) is
\* hotpink exactly when its most recent pointer event was pointer-over, and
\* orange otherwise, whatever clicks, frames or pointer events came before.
C2_RenderedColorIsLastPointerEvent ==
    \A b \in Boxes :
        canvasMounted =>
            LET next == Color(ApplyUpdates(hovered[b], hoverQueue[b]))
            IN  /\ next \in {"hotpink", "orange"}
                /\ next = "hotpink" <=> lastOver[b]

\* C2 witness: a box re-rendered pink after over, out, over, while active.
C2_Witness ==
    \E b \in Boxes :
        /\ Settled(b)
        /\ color(b) = "hotpink"
        /\ lastOver[b]
        /\ active[b]

\* C3: a frame adds its delta to rotation.x of every mounted box and changes
\* nothing else of the box; rotation.x of a mounted box never decreases; and if
\* frames with positive delta keep being delivered, rotation.x passes every
\* bound the model follows (or the box is unmounted), whatever the hover and
\* active flags are.
C3_BoxesSpin ==
    /\ [][\A d \in Deltas :
            Frame(d) =>
                \A b \in Boxes :
                    /\ rot'[b] = rot[b] + d
                    /\ hovered'[b] = hovered[b] /\ active'[b] = active[b]
                    /\ hoverQueue'[b] = hoverQueue[b]
                    /\ activeQueue'[b] = activeQueue[b]
                    /\ meshRef'[b] = meshRef[b]]_vars
    /\ [][canvasMounted /\ canvasMounted' =>
            \A b \in Boxes : rot'[b] >= rot[b]]_vars
    /\ \A b \in Boxes :
            canvasMounted ~> (rot[b] > MaxRot - 1 \/ ~canvasMounted)

\* C3 witness: a box spun to the end of the followed range while hovered and active.
C3_Witness ==
    \E b \in Boxes :
        canvasMounted /\ rot[b] = MaxRot /\ hovered[b] /\ active[b]

(***************************************************************************)
(* The gates.                                                              *)
(***************************************************************************)
\* Elements a gate may be given as children or fallback.
Elements == {"Scene", "AdvancedScene", "Loading 3D scene...", "null"}

\* What a panel shows: the server's HTML until the client has rendered.
Shown(g) ==
    IF page = "client" THEN out[g]
    ELSE IF page = "server" THEN serverOut[g]
    ELSE "none"

\* C4: ClientOnly renders its fallback in every render where hasMounted is
\* false and its children in every render where it is true; a scene is never
\* rendered on the server, nor on the client before the mount effect has run.
C4_FallbackUntilMounted ==
    /\ \A g \in Gates :
        /\ serverOut[g] \in {"none", Fallback(g)}
        /\ page = "client" =>
              out[g] = (IF hasMounted[g] THEN Children(g) ELSE Fallback(g))
        /\ page # "client" => out[g] = "none"
        /\ (out[g] = Children(g) \/ hasMounted[g]) => effectRan[g]
    /\ canvasMounted => page = "client" /\ out["basic"] = "Scene"

\* C4 witness: after a server render, the basic scene is up while the other
\* panel, whose mount effect has not run, still shows its fallback.
C4_Witness ==
    /\ canvasMounted
    /\ serverOut["basic"] = Fallback("basic")
    /\ ~effectRan["advanced"]
    /\ out["advanced"] = Fallback("advanced")

\* C5: the server render and the first client render of ClientOnly return the
\* same output, the fallback, whatever the children and the fallback are; the
\* children appear only in a later render, after the mount effect.
C5_NoHydrationMismatch ==
    /\ \A c \in Elements, f \in Elements : ClientOnly(HasMountedInit, c, f) = f
    /\ \A g \in Gates :
        /\ serverOut[g] # "none" => serverOut[g] = Fallback(g)
        /\ firstOut[g] # "none" => firstOut[g] = Fallback(g)
        /\ (serverOut[g] # "none" /\ firstOut[g] # "none") =>
              serverOut[g] = firstOut[g]
        /\ out[g] = Children(g) =>
              firstOut[g] = Fallback(g) /\ effectRan[g] /\ hasMounted[g]

\* C5 witness: a hydrated gate whose server and first client output were the
\* fallback and which now shows its children.
C5_Witness ==
    \E g \in Gates :
        /\ serverOut[g] = Fallback(g)
        /\ firstOut[g] = Fallback(g)
        /\ out[g] = Children(g)

\* C6: on the client, if mount effects are run and scheduled renders performed,
\* a gate showing its fallback eventually shows its children (or the page is
\* left); and once hasMounted is true, it stays true and the children stay
\* shown for as long as the page stays mounted.
C6_FallbackReplacedForGood ==
    /\ \A g \in Gates :
          (page = "client" /\ out[g] = Fallback(g))
              ~> (out[g] = Children(g) \/ page # "client")
    /\ [][\A g \in Gates :
            (hasMounted[g] /\ page' = "client") =>
                (hasMounted'[g] /\ out'[g] = Children(g))]_vars

\* C6 witness: both panels replaced, and still replaced after box events.
C6_Witness ==
    /\ \A g \in Gates : hasMounted[g] /\ out[g] = Children(g)
    /\ \E b \in Boxes : Settled(b) /\ rot[b] > 0 /\ lastOver[b]

C8_FreshOnMount ==
    fresh # "no" =>
        /\ canvasMounted
        /\ \A b \in Boxes :
            /\ ~hovered[b] /\ ~active[b]
            /\ Pending(b) = 0
            /\ color(b) = "orange"
            /\ scale(b) = 10

\* C8 witness: boxes just mounted in place of boxes that had a flag set.
C8_Witness == fresh = "dirty"

\* The fields of one box.
BoxState(b) ==
    << hovered[b], active[b], hoverQueue[b], activeQueue[b], rot[b], meshRef[b] >>

\* C9: a click, pointer-over, pointer-out or re-render of one box leaves every
\* field of the other box (flags, queued updates, rotation) unchanged, and the
\* frame callbacks leave the flags and queued updates of every box unchanged.
C9_BoxesIndependent ==
    [][/\ \A b \in Boxes :
            (Click(b) \/ PointerOver(b) \/ PointerOut(b) \/ RerenderBox(b)) =>
                \A c \in Boxes \ {b} : BoxState(c)' = BoxState(c)
       /\ (\E d \in Deltas : Frame(d)) =>
                \A c \in Boxes :
                    /\ hovered'[c] = hovered[c] /\ active'[c] = active[c]
                    /\ hoverQueue'[c] = hoverQueue[c]
                    /\ activeQueue'[c] = activeQueue[c]]_vars

\* C9 witness: the two boxes settled in opposite (active, hovered) states
\* after frames have run.
C9_Witness ==
    /\ canvasMounted /\ TotalPending = 0
    /\ active["left"] /\ ~hovered["left"]
    /\ ~active["right"] /\ hovered["right"]
    /\ rot["left"] > 0

\* C10: a click leaves the box's hovered (rendered and queued) and rotation.x
\* unchanged; pointer-over and pointer-out leave its active (rendered and
\* queued) and rotation.x unchanged; a frame callback leaves hovered and active
\* unchanged; a re-render leaves rotation.x unchanged.
C10_EventsChangeOwnVariable ==
    [][\A b \in Boxes :
          /\ Click(b) =>
                /\ hovered'[b] = hovered[b] /\ hoverQueue'[b] = hoverQueue[b]
                /\ rot'[b] = rot[b]
          /\ (PointerOver(b) \/ PointerOut(b)) =>
                /\ active'[b] = active[b] /\ activeQueue'[b] = activeQueue[b]
                /\ rot'[b] = rot[b]
          /\ (\E d \in Deltas : Frame(d)) =>
                /\ hovered'[b] = hovered[b] /\ hoverQueue'[b] = hoverQueue[b]
                /\ active'[b] = active[b] /\ activeQueue'[b] = activeQueue[b]
          /\ RerenderBox(b) => rot'[b] = rot[b]]_vars

\* C10 witness: a box re-rendered after a click and a pointer-over, its
\* accumulated rotation kept.
C10_Witness ==
    \E b \in Boxes :
        Settled(b) /\ clicksOdd[b] /\ active[b] /\ hovered[b] /\ rot[b] > 0

(***************************************************************************)
(* The frame callback and a missing mesh.                                  *)
(***************************************************************************)
\* C11: a frame callback that runs while meshRef.current is null raises no
\* error and changes nothing; rotation.x changes only in frames where the mesh
\* reference is set, and there by the frame's delta.
C11_FrameGuardedAgainstNullMesh ==
    /\ [](\A b \in Boxes : \A d \in Deltas :
            ~FrameCallbackResult(meshRef[b], rot[b], d).error)
    /\ [][\A d \in Deltas :
            Frame(d) =>
                \A b \in Boxes :
                    /\ meshRef[b] = "null" => BoxState(b)' = BoxState(b)
                    /\ meshRef[b] # "null" => rot'[b] = rot[b] + d]_vars
    /\ [][\A b \in Boxes : rot'[b] # rot[b] => meshRef[b] # "null"]_vars

\* C11 witness: frames have run to the end of the followed range; the box whose
\* mesh is set has turned, the box whose mesh is missing has not.
C11_Witness ==
    \E b \in Boxes, c \in Boxes :
        /\ meshRef[b] = "null" /\ rot[b] = 0
        /\ meshRef[c] = "mesh" /\ rot[c] = MaxRot

(***************************************************************************)
(* The limiter.                                                            *)
(***************************************************************************)
\* C12: the update logic runs in a frame exactly when a multiple of the period
\* lies in the interval (previous frame time, current frame time]; hence the
\* frames whose update logic ran lie in different periods, each later than the
\* one before: at most one update per period, for any sequence of frame times.
C12_LimiterOncePerPeriod ==
    /\ [][\A d \in Gaps :
            LimiterFrame(d) =>
                (limiterRan' <=>
                    \E k \in 0..MaxTime :
                        elapsedTime < k * Period /\ k * Period <= elapsedTime')]_vars
    /\ [](\A i \in 1..Len(updateLog) : \A j \in 1..Len(updateLog) :
            i < j => updateLog[i] \div Period < updateLog[j] \div Period)

\* C12 witness: the update logic has run in two frames less than a period
\* apart, a frame spanning more than one period ran it once, and the latest
\* frame skipped it.
C12_Witness ==
    /\ Len(updateLog) >= 3
    /\ updateLog[2] - updateLog[1] < Period
    /\ updateLog[3] - updateLog[2] > Period
    /\ ~limiterRan
    /\ elapsedTime > updateLog[3]

====
